---- MODULE Spec2Model ----
(***************************************************************************)
(* A model of cranelift-codegen's pre-legalization rewriting pass          *)
(* (simple_preopt.rs): simplify, the div/rem-by-constant rewriter,         *)
(* branch_opt, branch_order and the do_preopt driver.                      *)
(*                                                                         *)
(* Integer widths are scaled down: the type I32 is W32 bits wide, I64 and  *)
(* the Imm64 immediates are W64 bits wide.  Every constant of the source   *)
(* that depends on a width (0x1_0000_0000, 0x7fff_ffff, 31, 32, 63, 64,    *)
(* ...) is written in terms of the width it stands for.                    *)
(***************************************************************************)
EXTENDS Integers, Sequences, FiniteSets, TLC

VARIABLES func, func0, ebb, inst, pc, run, cfg, ncfg, bo, pre, after1,
          start, seen

vars == <<func, func0, ebb, inst, pc, run, cfg, ncfg, bo, pre, after1,
          start, seen>>

\* Scaled width of the type I32.
W32 == 4

\* Scaled width of the type I64 and of Imm64 immediates.
W64 == W32 + 2

\* Number of times the caller runs do_preopt on the function.
MaxRuns == 2

----------------------------------------------------------------------------
\* Machine arithmetic

RECURSIVE Pow2(_)
Pow2(k) == IF k = 0 THEN 1 ELSE 2 * Pow2(k - 1)

\* `x as uW`
AsU(w, x) == x % Pow2(w)

\* `x as iW`
AsS(w, x) == LET u == x % Pow2(w) IN IF u >= Pow2(w - 1) THEN u - Pow2(w) ELSE u

MinS(w) == 0 - Pow2(w - 1)
MaxS(w) == Pow2(w - 1) - 1

Abs(x) == IF x < 0 THEN 0 - x ELSE x

\* Division truncating toward zero, and its remainder (b # 0).
TruncDiv(a, b) ==
  LET q == Abs(a) \div Abs(b) IN IF (a < 0) = (b < 0) THEN q ELSE 0 - q
TruncRem(a, b) == a - b * TruncDiv(a, b)

RECURSIVE BitAnd(_, _, _)
BitAnd(w, a, b) ==
  IF w = 0 THEN 0
  ELSE (IF a % 2 = 1 /\ b % 2 = 1 THEN 1 ELSE 0)
       + 2 * BitAnd(w - 1, a \div 2, b \div 2)

\* uW::is_power_of_two
u_is_power_of_two(w, d) == \E k \in 0..(w - 1) : d = Pow2(k)

\* uW::trailing_zeros of a power of two
trailing_zeros(w, d) == CHOOSE k \in 0..(w - 1) : d = Pow2(k)

\* iW::wrapping_abs(x) as uW
wrapping_abs(w, x) == AsU(w, Abs(x))

\* wrapping_neg that does not negate.
wrapping_neg_identity(w, x) == x

\* iW::wrapping_neg
wrapping_neg(w, x) == AsS(w, 0 - x)

\* Option::None of the (is_negative, k) pair
None == [some |-> FALSE, neg |-> FALSE, k |-> 0]

\* i32_is_power_of_two / i64_is_power_of_two
is_power_of_two(w, x) ==
  IF x = MinS(w) THEN [some |-> TRUE, neg |-> TRUE, k |-> w - 1]
  ELSE LET abs_x == wrapping_abs(w, x) IN
       IF u_is_power_of_two(w, abs_x)
       THEN [some |-> TRUE, neg |-> x < 0, k |-> trailing_zeros(w, abs_x)]
       ELSE None

----------------------------------------------------------------------------
\* The IR

\* Width in bits of a value type.
Width(ty) ==
  CASE ty = "I32" -> W32
    [] ty = "I64" -> W64
    [] ty = "I16" -> W32 - 1
    [] OTHER -> 1

\* InstructionData: one record shape for every instruction format.  ty is
\* the controlling type variable; that of a branch or conditional trap is
\* the type of its first operand.
Data(op, args, imm, cond, dest, ty) ==
  [opcode |-> op, args |-> args, imm |-> imm, cond |-> cond, dest |-> dest, ty |-> ty]

\* Format with the branches on flags in the Branch format.
Format_flags_as_Branch(op) ==
  CASE op \in {"iadd", "isub", "imul", "udiv", "urem", "sdiv", "srem", "band",
               "bor", "bxor", "rotl", "rotr", "ishl", "ushr", "sshr",
               "umulhi", "smulhi", "ifcmp", "ffcmp"} -> "Binary"
    [] op \in {"iadd_imm", "imul_imm", "udiv_imm", "urem_imm", "sdiv_imm",
               "srem_imm", "band_imm", "bor_imm", "bxor_imm", "rotl_imm",
               "rotr_imm", "ishl_imm", "ushr_imm", "sshr_imm",
               "irsub_imm"} -> "BinaryImm"
    [] op = "iconst" -> "UnaryImm"
    [] op \in {"copy", "bint"} -> "Unary"
    [] op = "icmp" -> "IntCompare"
    [] op = "icmp_imm" -> "IntCompareImm"
    [] op \in {"brz", "brnz", "brif", "brff"} -> "Branch"
    [] op = "br_icmp" -> "BranchIcmp"
    [] op = "jump" -> "Jump"
    [] op = "select" -> "Ternary"
    [] op = "trapnz" -> "CondTrap"
    [] OTHER -> "MultiAry"

\* The instruction format of an opcode.  The Branch format has the fields
\* opcode, args and destination only; a branch on flags also carries a
\* condition code and is of a format of its own.
Format(op) ==
  CASE op \in {"iadd", "isub", "imul", "udiv", "urem", "sdiv", "srem", "band",
               "bor", "bxor", "rotl", "rotr", "ishl", "ushr", "sshr",
               "umulhi", "smulhi", "ifcmp", "ffcmp"} -> "Binary"
    [] op \in {"iadd_imm", "imul_imm", "udiv_imm", "urem_imm", "sdiv_imm",
               "srem_imm", "band_imm", "bor_imm", "bxor_imm", "rotl_imm",
               "rotr_imm", "ishl_imm", "ushr_imm", "sshr_imm",
               "irsub_imm"} -> "BinaryImm"
    [] op = "iconst" -> "UnaryImm"
    [] op \in {"copy", "bint"} -> "Unary"
    [] op = "icmp" -> "IntCompare"
    [] op = "icmp_imm" -> "IntCompareImm"
    [] op \in {"brz", "brnz"} -> "Branch"
    [] op = "br_icmp" -> "BranchIcmp"
    [] op = "brif" -> "BranchInt"
    [] op = "brff" -> "BranchFloat"
    [] op = "jump" -> "Jump"
    [] op = "select" -> "Ternary"
    [] op = "trapnz" -> "CondTrap"
    [] OTHER -> "MultiAry"

\* IntCC::inverse
inverse(cc) ==
  CASE cc = "eq" -> "ne"
    [] cc = "ne" -> "eq"
    [] cc = "slt" -> "sge"
    [] cc = "sge" -> "slt"
    [] cc = "ult" -> "uge"
    [] cc = "uge" -> "ult"

\* dfg.value_def: the instruction whose result the value is, 0 for a
\* block parameter.
value_def(f, v) ==
  IF \E i \in 1..Len(f.insts) : f.results[i] = v
  THEN CHOOSE i \in 1..Len(f.insts) : f.results[i] = v
  ELSE 0

\* dfg.value_type
value_type(f, v) == f.vtype[v]

\* replace that gives the result the controlling type of the new instruction.
replace_retyped(f, i, d) ==
  [f EXCEPT !.insts[i] = d, !.vtype[f.results[i]] = d.ty]

\* dfg.replace(inst).<data>: the instruction keeps its place and its result.
replace(f, i, d) == [f EXCEPT !.insts[i] = d]

\* The position of instruction i in the block b of the layout.
RECURSIVE IndexOf(_, _, _)
IndexOf(s, i, k) ==
  IF k > Len(s) THEN 0 ELSE IF s[k] = i THEN k ELSE IndexOf(s, i, k + 1)

\* InsertBefore placing the instructions after instruction `at`.
InsertAfter(f, b, at, ds) ==
  LET n  == Len(f.insts)
      nv == Len(f.vtype)
      blk == f.layout[b]
      k  == IndexOf(blk, at, 1)
      newIds == [j \in 1..Len(ds) |-> n + j]
  IN [f EXCEPT
        !.insts   = f.insts \o ds,
        !.results = f.results \o [j \in 1..Len(ds) |-> nv + j],
        !.vtype   = f.vtype \o [j \in 1..Len(ds) |-> ds[j].ty],
        !.layout[b] = SubSeq(blk, 1, k) \o newIds \o SubSeq(blk, k + 1, Len(blk))]

\* pos.ins().<data>, for a sequence of instructions: each one is inserted
\* before instruction `at` of block b and defines a fresh value of its type.
InsertBefore(f, b, at, ds) ==
  LET n  == Len(f.insts)
      nv == Len(f.vtype)
      blk == f.layout[b]
      k  == IndexOf(blk, at, 1)
      newIds == [j \in 1..Len(ds) |-> n + j]
  IN [f EXCEPT
        !.insts   = f.insts \o ds,
        !.results = f.results \o [j \in 1..Len(ds) |-> nv + j],
        !.vtype   = f.vtype \o [j \in 1..Len(ds) |-> ds[j].ty],
        !.layout[b] = SubSeq(blk, 1, k - 1) \o newIds \o SubSeq(blk, k, Len(blk))]

\* layout.next_ebb: blocks are numbered in layout order, 0 when there is none.
next_ebb(f, b) == IF b < Len(f.layout) THEN b + 1 ELSE 0

\* layout.prev_inst, 0 when the instruction is the first of its block.
prev_inst(f, b, i) ==
  LET k == IndexOf(f.layout[b], i, 1) IN IF k <= 1 THEN 0 ELSE f.layout[b][k - 1]

\* InstructionData::branch_destination, 0 when there is none.
branch_destination(d) ==
  IF Format(d.opcode) \in {"Branch", "BranchIcmp", "BranchInt", "BranchFloat", "Jump"}
  THEN d.dest ELSE 0

----------------------------------------------------------------------------
\* Magic numbers for division by a constant (divconst_magic_numbers), by
\* the derivation of Hacker's Delight, in w-bit wrapping arithmetic.

RECURSIVE magic_u_loop(_, _, _, _, _, _, _, _, _)
magic_u_loop(w, d, nc, p0, q1a, r1a, q2a, r2a, do_add0) ==
  LET p  == p0 + 1
      c1 == r1a >= AsU(w, nc - r1a)
      q1 == IF c1 THEN AsU(w, 2 * q1a + 1) ELSE AsU(w, 2 * q1a)
      r1 == IF c1 THEN AsU(w, 2 * r1a - nc) ELSE AsU(w, 2 * r1a)
      c2 == r2a + 1 >= AsU(w, d - r2a)
      do_add == IF c2 THEN (do_add0 \/ q2a >= Pow2(w - 1) - 1)
                      ELSE (do_add0 \/ q2a >= Pow2(w - 1))
      q2 == IF c2 THEN AsU(w, 2 * q2a + 1) ELSE AsU(w, 2 * q2a)
      r2 == IF c2 THEN AsU(w, 2 * r2a + 1 - d) ELSE AsU(w, 2 * r2a + 1)
      delta == d - 1 - r2
  IN IF p < 2 * w /\ (q1 < delta \/ (q1 = delta /\ r1 = 0))
     THEN magic_u_loop(w, d, nc, p, q1, r1, q2, r2, do_add)
     ELSE [mul_by |-> AsU(w, q2 + 1), do_add |-> do_add, shift_by |-> p - w]

\* magic_u32 / magic_u64
magic_u(w, d) ==
  LET nc == (Pow2(w) - 1) - (AsU(w, 0 - d) % d)
      q1 == Pow2(w - 1) \div nc
      r1 == Pow2(w - 1) - q1 * nc
      q2 == (Pow2(w - 1) - 1) \div d
      r2 == (Pow2(w - 1) - 1) - q2 * d
  IN magic_u_loop(w, d, nc, w - 1, q1, r1, q2, r2, FALSE)

RECURSIVE magic_s_loop(_, _, _, _, _, _, _, _, _)
magic_s_loop(w, d, ad, anc, p0, q1a, r1a, q2a, r2a) ==
  LET p  == p0 + 1
      c1 == AsU(w, 2 * r1a) >= anc
      q1 == IF c1 THEN AsU(w, 2 * q1a + 1) ELSE AsU(w, 2 * q1a)
      r1 == IF c1 THEN AsU(w, 2 * r1a - anc) ELSE AsU(w, 2 * r1a)
      c2 == AsU(w, 2 * r2a) >= ad
      q2 == IF c2 THEN AsU(w, 2 * q2a + 1) ELSE AsU(w, 2 * q2a)
      r2 == IF c2 THEN AsU(w, 2 * r2a - ad) ELSE AsU(w, 2 * r2a)
      delta == ad - r2
  IN IF q1 < delta \/ (q1 = delta /\ r1 = 0)
     THEN magic_s_loop(w, d, ad, anc, p, q1, r1, q2, r2)
     ELSE [mul_by |-> AsS(w, IF d < 0 THEN 0 - (q2 + 1) ELSE q2 + 1),
           shift_by |-> p - w]

\* magic_s32 / magic_s64
magic_s(w, d) ==
  LET two31 == Pow2(w - 1)
      ad  == wrapping_abs(w, d)
      t   == two31 + (AsU(w, d) \div Pow2(w - 1))
      anc == AsU(w, (t - 1) - (t % ad))
      q1  == two31 \div anc
      r1  == two31 - q1 * anc
      q2  == two31 \div ad
      r2  == two31 - q2 * ad
  IN magic_s_loop(w, d, ad, anc, w - 1, q1, r1, q2, r2)

----------------------------------------------------------------------------
\* Pattern-match helpers and transformation for div and rem by constants

NoInfo == [some |-> FALSE, is_signed |-> FALSE, ty |-> "", is_rem |-> FALSE, n |-> 0, d |-> 0]

\* DivRemByConstInfo: {Div,Rem} x {U,S} x {32,64}, with the operand and the
\* divisor.
DivRemByConstInfo(is_signed, ty, is_rem, n, d) ==
  [some |-> TRUE, is_signed |-> is_signed, ty |-> ty, is_rem |-> is_rem, n |-> n, d |-> d]

\* fits_u32 with `<=` for `<`.
fits_u32_inclusive(imm_u64) == imm_u64 <= Pow2(W32)

\* imm_u64 < 0x1_0000_0000
fits_u32(imm_u64) == imm_u64 < Pow2(W32)

\* imm_u64 <= 0x7fff_ffff || imm_u64 >= 0xffff_ffff_8000_0000
fits_s32(imm_u64) == imm_u64 <= MaxS(W32) \/ imm_u64 >= Pow2(W64) - Pow2(W32 - 1)

package_up_divrem_info(value, vty, imm_i64, is_signed, is_rem) ==
  LET imm_u64 == AsU(W64, imm_i64) IN
  CASE (~is_signed) /\ vty = "I32" ->
         IF fits_u32(imm_u64)
         THEN DivRemByConstInfo(FALSE, "I32", is_rem, value, AsU(W32, imm_u64))
         ELSE NoInfo
    [] (~is_signed) /\ vty = "I64" ->
         DivRemByConstInfo(FALSE, "I64", is_rem, value, imm_u64)
    [] is_signed /\ vty = "I32" ->
         IF fits_s32(imm_u64)
         THEN DivRemByConstInfo(TRUE, "I32", is_rem, value, AsS(W32, imm_u64))
         ELSE NoInfo
    [] is_signed /\ vty = "I64" ->
         DivRemByConstInfo(TRUE, "I64", is_rem, value, AsS(W64, imm_u64))
    [] OTHER -> NoInfo

get_div_info(i, f) ==
  LET d == f.insts[i] IN
  IF Format(d.opcode) = "BinaryImm"
  THEN IF d.opcode \in {"udiv_imm", "urem_imm", "sdiv_imm", "srem_imm"}
       THEN package_up_divrem_info(d.args[1], value_type(f, d.args[1]), d.imm,
                                   d.opcode \in {"sdiv_imm", "srem_imm"},
                                   d.opcode \in {"urem_imm", "srem_imm"})
       ELSE NoInfo
  ELSE NoInfo

\* Instruction builders of the given controlling type.
Bin(ty, op, x, y)    == Data(op, <<x, y>>, 0, "", 0, ty)
BinImm(ty, op, x, c) == Data(op, <<x>>, c, "", 0, ty)
Iconst(ty, c)        == Data("iconst", <<>>, c, "", 0, ty)
Copy(ty, x)          == Data("copy", <<x>>, 0, "", 0, ty)

\* What do_divrem_transformation does to `inst`: the instructions it inserts
\* before it (news) and the instruction it replaces it with (repl), or no
\* change at all.  base is the number of values of the function: the k-th
\* inserted instruction defines the value base + k.
Keep      == [news |-> <<>>, change |-> FALSE, repl |-> Copy("", 0)]
Out(s, r) == [news |-> s, change |-> TRUE, repl |-> r]

\* "Now qf holds the final quotient. If necessary calculate the remainder
\* instead."
divrem_final(info, base, s, qf) ==
  IF info.is_rem
  THEN Out(s \o <<BinImm(info.ty, "imul_imm", qf, AsS(W64, info.d))>>,
           Bin(info.ty, "isub", info.n, base + Len(s) + 1))
  ELSE Out(s, Copy(info.ty, qf))

\* divrem_ignore, forgetting the divisor -1.
divrem_ignore_only_zero(info) == info.d = 0

\* div, rem by zero (and by -1 when signed): ignore
divrem_ignore(info) ==
  IF info.is_signed THEN info.d = 0 - 1 \/ info.d = 0 ELSE info.d = 0

\* div by 1: identity; rem by 1: zero
divrem_by_one(info) ==
  IF info.is_rem THEN Out(<<>>, Iconst(info.ty, 0))
                 ELSE Out(<<>>, Copy(info.ty, info.n))

\* divrem_u_pow2 with the divisor itself as the mask of the remainder.
divrem_u_pow2_mask_is_d(info) ==
  LET k == trailing_zeros(Width(info.ty), info.d) IN
  IF info.is_rem
  THEN LET mask == Pow2(k)
       IN Out(<<>>, BinImm(info.ty, "band_imm", info.n, AsS(W64, mask)))
  ELSE Out(<<>>, BinImm(info.ty, "ushr_imm", info.n, k))

\* unsigned div, rem by a power-of-2
divrem_u_pow2(info) ==
  LET k == trailing_zeros(Width(info.ty), info.d) IN
  IF info.is_rem
  THEN LET mask == Pow2(k) - 1
       IN Out(<<>>, BinImm(info.ty, "band_imm", info.n, AsS(W64, mask)))
  ELSE Out(<<>>, BinImm(info.ty, "ushr_imm", info.n, k))

\* u_magic_sequence subtracting n1 from q1.
u_magic_sequence_reversed_isub(info, base, m) ==
  LET ty == info.ty
      n1 == info.n
      q1 == base + 2
      s0 == <<Iconst(ty, AsS(W64, m.mul_by)), Bin(ty, "umulhi", n1, base + 1)>>
      s  == IF m.do_add
            THEN s0 \o <<Bin(ty, "isub", q1, n1),
                         BinImm(ty, "ushr_imm", base + 3, 1),
                         Bin(ty, "iadd", base + 4, q1),
                         BinImm(ty, "ushr_imm", base + 5, m.shift_by - 1)>>
            ELSE IF m.shift_by > 0
                 THEN s0 \o <<BinImm(ty, "ushr_imm", q1, m.shift_by)>>
                 ELSE s0
  IN divrem_final(info, base, s, base + Len(s))

\* The instructions emitted for the magic numbers m = MU32 / MU64
\* {mul_by, do_add, shift_by}.
u_magic_sequence(info, base, m) ==
  LET ty == info.ty
      n1 == info.n
      q1 == base + 2
      s0 == <<Iconst(ty, AsS(W64, m.mul_by)), Bin(ty, "umulhi", n1, base + 1)>>
      s  == IF m.do_add
            THEN s0 \o <<Bin(ty, "isub", n1, q1),
                         BinImm(ty, "ushr_imm", base + 3, 1),
                         Bin(ty, "iadd", base + 4, q1),
                         BinImm(ty, "ushr_imm", base + 5, m.shift_by - 1)>>
            ELSE IF m.shift_by > 0
                 THEN s0 \o <<BinImm(ty, "ushr_imm", q1, m.shift_by)>>
                 ELSE s0
  IN divrem_final(info, base, s, base + Len(s))

\* U32 / U64 div, rem by non-power-of-2
divrem_u_magic(info, base) ==
  u_magic_sequence(info, base, magic_u(Width(info.ty), info.d))

\* divrem_s_pow2 taking the rounding bias from n1 itself instead of from
\* sshr_imm(n1, k - 1).
divrem_s_pow2_no_sign_fill(info, base, p2) ==
  LET ty == info.ty
      w  == Width(ty)
      n1 == info.n
      k  == p2.k
      s2 == <<BinImm(ty, "ushr_imm", n1, w - k)>>
      t2 == base + Len(s2)
      s3 == s2 \o <<Bin(ty, "iadd", n1, t2)>>
      t3 == base + Len(s3)
  IN IF info.is_rem
     THEN LET s4 == s3 \o <<BinImm(ty, "band_imm", t3,
                                   wrapping_neg(w, AsS(w, Pow2(k))))>>
          IN Out(s4, Bin(ty, "isub", n1, base + Len(s4)))
     ELSE LET s4 == s3 \o <<BinImm(ty, "sshr_imm", t3, k)>>
              t4 == base + Len(s4)
          IN IF p2.neg THEN Out(s4, BinImm(ty, "irsub_imm", t4, 0))
                       ELSE Out(s4, Copy(ty, t4))

\* signed div, rem by a power-of-2 or its negation: p2 = (is_negative, k)
divrem_s_pow2(info, base, p2) ==
  LET ty == info.ty
      w  == Width(ty)
      n1 == info.n
      k  == p2.k
      s1 == IF k - 1 = 0 THEN <<>> ELSE <<BinImm(ty, "sshr_imm", n1, k - 1)>>
      t1 == IF k - 1 = 0 THEN n1 ELSE base + 1
      s2 == s1 \o <<BinImm(ty, "ushr_imm", t1, w - k)>>
      t2 == base + Len(s2)
      s3 == s2 \o <<Bin(ty, "iadd", n1, t2)>>
      t3 == base + Len(s3)
  IN IF info.is_rem
     THEN LET s4 == s3 \o <<BinImm(ty, "band_imm", t3,
                                   wrapping_neg(w, AsS(w, Pow2(k))))>>
          IN Out(s4, Bin(ty, "isub", n1, base + Len(s4)))
     ELSE LET s4 == s3 \o <<BinImm(ty, "sshr_imm", t3, k)>>
              t4 == base + Len(s4)
          IN IF p2.neg THEN Out(s4, BinImm(ty, "irsub_imm", t4, 0))
                       ELSE Out(s4, Copy(ty, t4))

\* signed div, rem by a non-power-of-2
divrem_s_magic(info, base) ==
  LET ty == info.ty
      n1 == info.n
      d  == info.d
      m  == magic_s(Width(ty), d)
      s1 == <<Iconst(ty, m.mul_by), Bin(ty, "smulhi", n1, base + 1)>>
      q1 == base + 2
      s2 == IF d > 0 /\ m.mul_by < 0 THEN s1 \o <<Bin(ty, "iadd", q1, n1)>>
            ELSE IF d < 0 /\ m.mul_by > 0 THEN s1 \o <<Bin(ty, "isub", q1, n1)>>
            ELSE s1
      q2 == base + Len(s2)
      s3 == IF m.shift_by = 0 THEN s2
            ELSE s2 \o <<BinImm(ty, "sshr_imm", q2, m.shift_by)>>
      q3 == base + Len(s3)
      s4 == s3 \o <<BinImm(ty, "ushr_imm", q3, Width(ty) - 1),
                    Bin(ty, "iadd", q3, q3 + 1)>>
  IN divrem_final(info, base, s4, base + Len(s4))

\* The match of do_divrem_transformation on the descriptor.
divrem_sequence(info, base) ==
  IF divrem_ignore(info) THEN Keep
  ELSE IF info.d = 1 THEN divrem_by_one(info)
  ELSE IF ~info.is_signed THEN
    IF u_is_power_of_two(Width(info.ty), info.d)
    THEN divrem_u_pow2(info)
    ELSE divrem_u_magic(info, base)
  ELSE
    IF is_power_of_two(Width(info.ty), info.d).some
    THEN divrem_s_pow2(info, base, is_power_of_two(Width(info.ty), info.d))
    ELSE divrem_s_magic(info, base)

do_divrem_transformation(info, f, b, i) ==
  LET r == divrem_sequence(info, Len(f.vtype)) IN
  IF r.change THEN replace(InsertBefore(f, b, i, r.news), i, r.repl) ELSE f

----------------------------------------------------------------------------
\* simplify

\* The `_imm` opcode a binary opcode folds to (right operand constant).
ImmOpcode(op) ==
  CASE op = "iadd" -> "iadd_imm"
    [] op = "imul" -> "imul_imm"
    [] op = "sdiv" -> "sdiv_imm"
    [] op = "udiv" -> "udiv_imm"
    [] op = "srem" -> "srem_imm"
    [] op = "urem" -> "urem_imm"
    [] op = "band" -> "band_imm"
    [] op = "bor"  -> "bor_imm"
    [] op = "bxor" -> "bxor_imm"
    [] op = "rotl" -> "rotl_imm"
    [] op = "rotr" -> "rotr_imm"
    [] op = "ishl" -> "ishl_imm"
    [] op = "ushr" -> "ushr_imm"
    [] op = "sshr" -> "sshr_imm"
    [] op = "isub" -> "iadd_imm"
    [] OTHER -> ""

\* Whether value v is the result of an iconst.
is_iconst(f, v) == value_def(f, v) # 0 /\ f.insts[value_def(f, v)].opcode = "iconst"

simplify(f, i) ==
  LET d   == f.insts[i]
      fmt == Format(d.opcode)
  IN
  CASE fmt = "Binary" ->
         IF value_def(f, d.args[2]) # 0 THEN
           IF is_iconst(f, d.args[2]) THEN
             LET imm0 == f.insts[value_def(f, d.args[2])].imm
                 imm  == IF d.opcode = "isub" THEN wrapping_neg(W64, imm0) ELSE imm0
             IN IF ImmOpcode(d.opcode) = "" THEN f
                ELSE replace(f, i, Data(ImmOpcode(d.opcode), <<d.args[1]>>, imm, "", 0, d.ty))
           ELSE f
         ELSE IF value_def(f, d.args[1]) # 0 THEN
           IF is_iconst(f, d.args[1]) THEN
             LET imm == f.insts[value_def(f, d.args[1])].imm
             IN IF d.opcode = "isub"
                THEN replace(f, i, Data("irsub_imm", <<d.args[2]>>, imm, "", 0, d.ty))
                ELSE f
           ELSE f
         ELSE f
    [] fmt = "IntCompare" ->
         IF is_iconst(f, d.args[2])
         THEN replace(f, i, Data("icmp_imm", <<d.args[1]>>,
                                 f.insts[value_def(f, d.args[2])].imm, d.cond, 0,
                                 value_type(f, d.args[1])))
         ELSE f
    [] fmt \in {"CondTrap", "Branch"} \/ (fmt = "Ternary" /\ d.opcode = "select") ->
         \* Fold away a redundant `bint`.
         LET def_inst == value_def(f, d.args[1]) IN
         IF def_inst # 0 /\ f.insts[def_inst].opcode = "bint"
         THEN [f EXCEPT !.insts[i].args[1] = f.insts[def_inst].args[1],
                        !.insts[i].ty = IF fmt = "Ternary" THEN d.ty
                                        ELSE value_type(f, f.insts[def_inst].args[1])]
         ELSE f
    [] OTHER -> f

----------------------------------------------------------------------------
\* branch_opt

\* branch_opt_cond without the inversion for brz.
branch_opt_cond_no_inverse(br_opcode, cmp_cond) == cmp_cond

\* "icmp_imm returns non-zero when the comparison is true. So, if we're
\* branching on zero, we need to invert the condition."
branch_opt_cond(br_opcode, cmp_cond) ==
  IF br_opcode = "brz" THEN inverse(cmp_cond) ELSE cmp_cond

\* branch_opt_new_opcode with the two opcodes exchanged.
branch_opt_new_opcode_swapped(cond) == IF cond = "eq" THEN "brnz" ELSE "brz"

\* The opcode of the folded branch (cond is Equal or NotEqual).
branch_opt_new_opcode(cond) == IF cond = "eq" THEN "brz" ELSE "brnz"

\* branch_opt without the test that the icmp_imm compares against zero.
branch_opt_any_imm(f, i) ==
  LET d == f.insts[i] IN
  IF Format(d.opcode) = "Branch" THEN
    LET first_arg == d.args[1]
        icmp_inst == value_def(f, first_arg)
    IN
    IF icmp_inst = 0 THEN f
    ELSE IF f.insts[icmp_inst].opcode = "icmp_imm" THEN
      LET cmp_arg  == f.insts[icmp_inst].args[1]
          cmp_cond == f.insts[icmp_inst].cond
      IN
      IF d.opcode \notin {"brz", "brnz"} THEN f
      ELSE
        LET cond == branch_opt_cond(d.opcode, cmp_cond)
        IN IF cond \notin {"eq", "ne"} THEN f
           ELSE LET new_opcode == branch_opt_new_opcode(cond)
                IN [f EXCEPT !.insts[i].args[1] = cmp_arg,
                             !.insts[i].ty = value_type(f, cmp_arg),
                             !.insts[i].opcode = new_opcode]
    ELSE f
  ELSE f

branch_opt(f, i) ==
  LET d == f.insts[i] IN
  IF Format(d.opcode) = "Branch" THEN
    LET first_arg == d.args[1]
        icmp_inst == value_def(f, first_arg)
    IN
    IF icmp_inst = 0 THEN f
    ELSE IF f.insts[icmp_inst].opcode = "icmp_imm" THEN
      LET cmp_arg  == f.insts[icmp_inst].args[1]
          cmp_cond == f.insts[icmp_inst].cond
          cmp_imm  == f.insts[icmp_inst].imm
      IN
      IF cmp_imm # 0 THEN f
      ELSE IF d.opcode \notin {"brz", "brnz"} THEN f
      ELSE
        LET cond == branch_opt_cond(d.opcode, cmp_cond)
        IN IF cond \notin {"eq", "ne"} THEN f
           ELSE LET new_opcode == branch_opt_new_opcode(cond)
                IN [f EXCEPT !.insts[i].args[1] = cmp_arg,
                             !.insts[i].ty = value_type(f, cmp_arg),
                             !.insts[i].opcode = new_opcode]
    ELSE f
  ELSE f

----------------------------------------------------------------------------
\* branch_order

NoSwap(res) ==
  [res |-> res, term_inst |-> 0, term_args |-> <<>>, term_dest |-> 0,
   cond_inst |-> 0, cond_args |-> <<>>, cond_dest |-> 0,
   kind |-> "", cond |-> "", x_arg |-> 0, y_arg |-> 0]

\* already_fallthrough, never returning early.
already_fallthrough_never(destination, next) == FALSE

\* if destination == next_ebb { return; }
already_fallthrough(destination, next) == destination = next

\* branch_order_match without the test that the branch before the jump goes
\* to the next block.
branch_order_match_any_dest(f, b, i) ==
  LET d == f.insts[i] IN
  IF d.opcode # "jump" THEN NoSwap("return")
  ELSE IF next_ebb(f, b) = 0 THEN NoSwap("return")
  ELSE IF already_fallthrough(d.dest, next_ebb(f, b)) THEN NoSwap("return")
  ELSE IF prev_inst(f, b, i) = 0 THEN NoSwap("return")
  ELSE
    LET prev == prev_inst(f, b, i)
        pd   == f.insts[prev]
    IN
    IF branch_destination(pd) = 0 THEN NoSwap("return")
    ELSE IF Format(pd.opcode) = "Branch" THEN
      IF pd.opcode \notin {"brz", "brnz"} THEN NoSwap("panic")
      ELSE [res |-> "swap", term_inst |-> i, term_args |-> d.args,
            term_dest |-> d.dest, cond_inst |-> prev, cond_args |-> pd.args,
            cond_dest |-> pd.dest,
            kind |-> IF pd.opcode = "brz" THEN "BrzToBrnz" ELSE "BrnzToBrz",
            cond |-> "", x_arg |-> pd.args[1], y_arg |-> 0]
    ELSE IF pd.opcode = "br_icmp" THEN
      [res |-> "swap", term_inst |-> i, term_args |-> d.args,
       term_dest |-> d.dest, cond_inst |-> prev, cond_args |-> pd.args,
       cond_dest |-> pd.dest, kind |-> "InvertIcmpCond",
       cond |-> pd.cond, x_arg |-> pd.args[1], y_arg |-> pd.args[2]]
    ELSE NoSwap("return")

\* The match of branch_order: "return" when the function returns without a
\* change, "panic" on an unexpected opcode, and otherwise the locals
\* (term_inst, term_args, term_dest, cond_inst, cond_args, cond_dest, kind).
branch_order_match(f, b, i) ==
  LET d == f.insts[i] IN
  IF d.opcode # "jump" THEN NoSwap("return")
  ELSE IF next_ebb(f, b) = 0 THEN NoSwap("return")
  ELSE IF already_fallthrough(d.dest, next_ebb(f, b)) THEN NoSwap("return")
  ELSE IF prev_inst(f, b, i) = 0 THEN NoSwap("return")
  ELSE
    LET prev == prev_inst(f, b, i)
        pd   == f.insts[prev]
    IN
    IF branch_destination(pd) = 0 THEN NoSwap("return")
    ELSE IF branch_destination(pd) # next_ebb(f, b) THEN NoSwap("return")
    ELSE IF Format(pd.opcode) = "Branch" THEN
      IF pd.opcode \notin {"brz", "brnz"} THEN NoSwap("panic")
      ELSE [res |-> "swap", term_inst |-> i, term_args |-> d.args,
            term_dest |-> d.dest, cond_inst |-> prev, cond_args |-> pd.args,
            cond_dest |-> pd.dest,
            kind |-> IF pd.opcode = "brz" THEN "BrzToBrnz" ELSE "BrnzToBrz",
            cond |-> "", x_arg |-> pd.args[1], y_arg |-> 0]
    ELSE IF pd.opcode = "br_icmp" THEN
      [res |-> "swap", term_inst |-> i, term_args |-> d.args,
       term_dest |-> d.dest, cond_inst |-> prev, cond_args |-> pd.args,
       cond_dest |-> pd.dest, kind |-> "InvertIcmpCond",
       cond |-> pd.cond, x_arg |-> pd.args[1], y_arg |-> pd.args[2]]
    ELSE NoSwap("return")

\* s[k..]
Tail_from(s, k) == SubSeq(s, k, Len(s))

\* replace_term letting the jump keep its destination and arguments.
replace_term_keeps_dest(f, l) ==
  replace(f, l.term_inst, Data("jump", l.term_args, 0, "", l.term_dest, ""))

\* pos.func.dfg.replace(term_inst).jump(cond_dest, &cond_args[1..]) (or [2..])
replace_term(f, l) ==
  replace(f, l.term_inst,
          Data("jump",
               Tail_from(l.cond_args, IF l.kind = "InvertIcmpCond" THEN 3 ELSE 2),
               0, "", l.cond_dest, ""))

\* replace_cond without the inversion of the condition.
replace_cond_not_inverted(f, l) ==
  replace(f, l.cond_inst,
          IF l.kind = "BrnzToBrz"
          THEN Data("brnz", <<l.x_arg>> \o l.term_args, 0, "", l.term_dest,
                    value_type(f, l.x_arg))
          ELSE IF l.kind = "BrzToBrnz"
          THEN Data("brz", <<l.x_arg>> \o l.term_args, 0, "", l.term_dest,
                    value_type(f, l.x_arg))
          ELSE Data("br_icmp", <<l.x_arg, l.y_arg>> \o l.term_args, 0,
                    l.cond, l.term_dest, value_type(f, l.x_arg)))

\* pos.func.dfg.replace(cond_inst).brz / brnz / br_icmp(.., term_dest, &term_args)
replace_cond(f, l) ==
  replace(f, l.cond_inst,
          IF l.kind = "BrnzToBrz"
          THEN Data("brz", <<l.x_arg>> \o l.term_args, 0, "", l.term_dest,
                    value_type(f, l.x_arg))
          ELSE IF l.kind = "BrzToBrnz"
          THEN Data("brnz", <<l.x_arg>> \o l.term_args, 0, "", l.term_dest,
                    value_type(f, l.x_arg))
          ELSE Data("br_icmp", <<l.x_arg, l.y_arg>> \o l.term_args, 0,
                    inverse(l.cond), l.term_dest, value_type(f, l.x_arg)))

\* The successors of block b, as ControlFlowGraph::recompute_ebb finds them.
compute_ebb(f, b) ==
  {branch_destination(f.insts[f.layout[b][k]]) : k \in 1..Len(f.layout[b])} \ {0}

----------------------------------------------------------------------------
\* Run-time meaning of the instructions (values are unsigned w-bit numbers)

Trap == 0 - 1

\* The comparison cc of the w-bit numbers a and b.
Compare(cc, w, a, b) ==
  CASE cc = "eq"  -> a = b
    [] cc = "ne"  -> a # b
    [] cc = "slt" -> AsS(w, a) < AsS(w, b)
    [] cc = "sge" -> AsS(w, a) >= AsS(w, b)
    [] cc = "ult" -> a < b
    [] cc = "uge" -> a >= b

\* The result of a div or rem of the w-bit number a by the w-bit number b.
DivRem(op, w, a, b) ==
  CASE op \in {"udiv", "udiv_imm"} -> IF b = 0 THEN Trap ELSE a \div b
    [] op \in {"urem", "urem_imm"} -> IF b = 0 THEN Trap ELSE a % b
    [] op \in {"sdiv", "sdiv_imm"} ->
         IF b = 0 \/ (AsS(w, b) = 0 - 1 /\ AsS(w, a) = MinS(w)) THEN Trap
         ELSE AsU(w, TruncDiv(AsS(w, a), AsS(w, b)))
    [] op \in {"srem", "srem_imm"} ->
         IF b = 0 THEN Trap
         ELSE AsU(w, TruncRem(AsS(w, a), AsS(w, b)))

\* The value v evaluates to when the block parameters have the values env.
RECURSIVE Eval(_, _, _)
Eval(f, v, env) ==
  LET i == value_def(f, v) IN
  IF i = 0 THEN env[v]
  ELSE
    LET d  == f.insts[i]
        op == d.opcode
        w  == Width(d.ty)
        a  == Eval(f, d.args[1], env)
        b  == Eval(f, d.args[2], env)
        c  == AsU(w, d.imm)
    IN
    CASE op = "iconst" -> c
      [] op \in {"copy", "bint"} -> a
      [] op = "iadd" -> AsU(w, a + b)
      [] op = "isub" -> AsU(w, a - b)
      [] op = "imul" -> AsU(w, a * b)
      [] op = "umulhi" -> (a * b) \div Pow2(w)
      [] op = "smulhi" -> AsU(w, (AsS(w, a) * AsS(w, b)) \div Pow2(w))
      [] op = "iadd_imm" -> AsU(w, a + c)
      [] op = "imul_imm" -> AsU(w, a * c)
      [] op = "irsub_imm" -> AsU(w, c - a)
      [] op = "band_imm" -> BitAnd(w, a, c)
      [] op = "ushr_imm" -> a \div Pow2(d.imm % w)
      [] op = "sshr_imm" -> AsU(w, AsS(w, a) \div Pow2(d.imm % w))
      [] op \in {"udiv_imm", "urem_imm", "sdiv_imm", "srem_imm"} -> DivRem(op, w, a, c)
      [] op \in {"udiv", "urem", "sdiv", "srem"} -> DivRem(op, w, a, b)
      [] op = "icmp_imm" -> IF Compare(d.cond, w, a, c) THEN 1 ELSE 0
      [] op = "icmp" -> IF Compare(d.cond, w, a, b) THEN 1 ELSE 0

\* Whether the conditional branch d is taken.
Taken(f, d, env) ==
  CASE d.opcode = "brz"  -> Eval(f, d.args[1], env) = 0
    [] d.opcode = "brnz" -> Eval(f, d.args[1], env) # 0
    [] d.opcode = "br_icmp" ->
         Compare(d.cond, Width(d.ty), Eval(f, d.args[1], env), Eval(f, d.args[2], env))

\* The block arguments a branch passes to its destination.
BlockArgs(d) ==
  Tail_from(d.args, CASE d.opcode = "jump" -> 1
                      [] d.opcode = "br_icmp" -> 3
                      [] OTHER -> 2)

\* Where the pair (conditional branch p, jump j) leaves control to, and with
\* which block arguments.
Exit(f, p, j, env) ==
  IF Taken(f, f.insts[p], env)
  THEN <<f.insts[p].dest, BlockArgs(f.insts[p])>>
  ELSE <<f.insts[j].dest, BlockArgs(f.insts[j])>>

----------------------------------------------------------------------------
\* The input functions

\* A function with block parameters of the types ptys, the instructions ds
\* (the i-th one defines the value Len(ptys) + i when rtys[i] is a type) and
\* the given layout.
MkFunc(ptys, ds, rtys, layout) ==
  [insts   |-> ds,
   results |-> [i \in 1..Len(ds) |-> IF rtys[i] = "" THEN 0 ELSE Len(ptys) + i],
   vtype   |-> ptys \o rtys,
   layout  |-> layout]

Return(args) == Data("return", args, 0, "", 0, "")

ImmRange == MinS(W64)..MaxS(W64)
DivOps == {"udiv", "urem", "sdiv", "srem"}

\* v2 = <op>_imm v1, imm        (form "imm")
\* v2 = iconst imm; v3 = <op> v1, v2    (form "bin")
DivFunc(ty, op, imm, form) ==
  IF form = "imm"
  THEN MkFunc(<<ty>>,
              <<BinImm(ty, ImmOpcode(op), 1, imm), Return(<<2>>)>>,
              <<ty, "">>, <<<<1, 2>>>>)
  ELSE MkFunc(<<ty>>,
              <<Iconst(ty, imm), Bin(ty, op, 1, 2), Return(<<3>>)>>,
              <<ty, ty, "">>, <<<<1, 2, 3>>>>)

DivFuncs ==
  {DivFunc(ty, op, imm, form) :
     ty \in {"I32", "I64", "I16"}, op \in DivOps, imm \in ImmRange,
     form \in {"imm", "bin"}}

BinOps == {"iadd", "isub", "imul", "udiv", "urem", "sdiv", "srem", "band",
           "bor", "bxor", "rotl", "rotr", "ishl", "ushr", "sshr", "umulhi"}

\* v3 = iconst c; v4 = iadd_imm v1, 1; v5 = <op> l, r
\* with l and r among v1 (a block parameter), v3 (a constant) and v4 (the
\* result of another instruction).
BinFunc(ty, op, c, l, r) ==
  MkFunc(<<ty, ty>>,
         <<Iconst(ty, c), BinImm(ty, "iadd_imm", 1, 1), Bin(ty, op, l, r),
           Return(<<5>>)>>,
         <<ty, ty, ty, "">>, <<<<1, 2, 3, 4>>>>)

BinFuncs ==
  {BinFunc(ty, op, c, l, r) :
     ty \in {"I32", "I64"}, op \in BinOps, c \in {1, 0 - 3, MinS(W64)},
     l \in {1, 3, 4}, r \in {1, 3, 4}}

\* v3 = iconst c; v4 = icmp cc v1, r; v5 = bint v4; v6 = select v5, v1, v2;
\* trapnz v5
CmpFunc(cc, c, r) ==
  MkFunc(<<"I32", "I32">>,
         <<Iconst("I32", c), Data("icmp", <<1, r>>, 0, cc, 0, "I32"),
           Data("bint", <<4>>, 0, "", 0, "I32"),
           Data("select", <<5, 1, 2>>, 0, "", 0, "I32"),
           Data("trapnz", <<5>>, 0, "", 0, "I32"), Return(<<6>>)>>,
         <<"I32", "B1", "I32", "I32", "", "">>, <<<<1, 2, 3, 4, 5, 6>>>>)

CmpFuncs == {CmpFunc(cc, c, r) : cc \in {"eq", "slt"}, c \in {0, 1}, r \in {2, 3}}

\* Number of blocks of the functions with branches.
NumEbbs == 3

\* The instructions defining the condition of a branch, by kind of
\* condition; the condition is the last value defined (v1 when none is).
\* Block parameters: v1, v2 : I32 and v3 : B1.
CondDefs(src) ==
  CASE src.kind = "param" -> <<>>
    [] src.kind = "icmp_imm" ->
         <<Data("icmp_imm", <<1>>, src.imm, src.cc, 0, "I32")>>
    [] src.kind = "bint" -> <<Data("bint", <<3>>, 0, "", 0, "I32")>>
    [] src.kind = "bint_icmp" ->
         <<Data("bint", <<3>>, 0, "", 0, "I32"),
           Data("icmp_imm", <<4>>, 0, src.cc, 0, "I32")>>
    [] src.kind = "icmp_bint" ->
         <<Data("icmp_imm", <<1>>, 0, src.cc, 0, "I32"),
           Data("bint", <<4>>, 0, "", 0, "I32")>>
    [] src.kind = "ifcmp" -> <<Data("ifcmp", <<1, 2>>, 0, "", 0, "I32")>>
    [] src.kind = "ffcmp" ->
         <<Data("f32const", <<>>, 0, "", 0, "F32"),
           Data("ffcmp", <<4, 4>>, 0, "", 0, "F32")>>

CondTypes(src) ==
  CASE src.kind = "param" -> <<>>
    [] src.kind = "icmp_imm" -> <<"B1">>
    [] src.kind = "bint" -> <<"I32">>
    [] src.kind = "bint_icmp" -> <<"I32", "B1">>
    [] src.kind = "icmp_bint" -> <<"B1", "I32">>
    [] src.kind = "ifcmp" -> <<"IFLAGS">>
    [] src.kind = "ffcmp" -> <<"F32", "FFLAGS">>

Src(kind, cc, imm) == [kind |-> kind, cc |-> cc, imm |-> imm]

CondSrcs ==
  {Src("param", "", 0), Src("bint", "", 0)}
  \cup {Src("icmp_imm", cc, imm) : cc \in {"eq", "ne", "slt"}, imm \in {0, 1}}
  \cup {Src(k, cc, 0) : k \in {"bint_icmp", "icmp_bint"}, cc \in {"eq", "ne"}}

\* The conditional branch before the terminator, by kind: brz/brnz on the
\* condition, br_icmp on v1 and v2, brif/brff on the flags of a comparison,
\* an instruction that is no branch, or nothing.
PKinds ==
  {[op |-> op, src |-> src, cc |-> ""] : op \in {"brz", "brnz"}, src \in CondSrcs}
  \cup {[op |-> "br_icmp", src |-> Src("param", "", 0), cc |-> cc] :
          cc \in {"eq", "slt", "uge"}}
  \cup {[op |-> "brif", src |-> Src("ifcmp", "", 0), cc |-> "eq"],
        [op |-> "brff", src |-> Src("ffcmp", "", 0), cc |-> "eq"]}
  \cup {[op |-> op, src |-> Src("param", "", 0), cc |-> ""] : op \in {"iadd_imm", "none"}}

\* The block `main` of the layout holds
\*   <condition>; <conditional branch to pdest(pargs)>; <terminator>
\* where the terminator is `jump jdest(jargs)` or a return; every other block
\* holds a return.
BranchFunc(main, pk, pdest, pargs, term, jdest, jargs) ==
  LET cds   == CondDefs(pk.src)
      nc    == Len(cds)
      c     == IF nc = 0 THEN 1 ELSE 3 + nc
      cty   == IF nc = 0 THEN "I32" ELSE CondTypes(pk.src)[nc]
      P     == CASE pk.op \in {"brz", "brnz"} ->
                      <<Data(pk.op, <<c>> \o pargs, 0, "", pdest, cty)>>
                 [] pk.op \in {"brif", "brff"} ->
                      <<Data(pk.op, <<c>> \o pargs, 0, pk.cc, pdest, cty)>>
                 [] pk.op = "br_icmp" ->
                      <<Data("br_icmp", <<1, 2>> \o pargs, 0, pk.cc, pdest, "I32")>>
                 [] pk.op = "iadd_imm" -> <<BinImm("I32", "iadd_imm", 1, 1)>>
                 [] OTHER -> <<>>
      Pty   == CASE pk.op = "iadd_imm" -> <<"I32">>
                 [] pk.op = "none" -> <<>>
                 [] OTHER -> <<"">>
      T     == IF term = "jump" THEN <<Data("jump", jargs, 0, "", jdest, "")>>
               ELSE <<Return(<<>>)>>
      body  == cds \o P \o T
      nb    == Len(body)
      others == NumEbbs - 1
      ds    == body \o [k \in 1..others |-> Return(<<>>)]
      rtys  == CondTypes(pk.src) \o Pty \o <<"">> \o [k \in 1..others |-> ""]
      layout == [b \in 1..NumEbbs |->
                   IF b = main THEN [k \in 1..nb |-> k]
                   ELSE <<nb + (IF b < main THEN b ELSE b - 1)>>]
  IN MkFunc(<<"I32", "I32", "B1">>, ds, rtys, layout)

BranchFuncs ==
  {BranchFunc(1, pk, pdest, pargs, "jump", jdest, jargs) :
     pk \in PKinds, pdest \in 1..NumEbbs, jdest \in 1..NumEbbs,
     pargs \in {<<>>, <<2>>}, jargs \in {<<>>, <<1, 2>>}}
  \cup {BranchFunc(main, pk, 1, <<>>, term, 2, <<>>) :
          main \in {1, NumEbbs}, pk \in PKinds, term \in {"jump", "return"}}

InitFuncs == DivFuncs \cup BinFuncs \cup CmpFuncs \cup BranchFuncs

----------------------------------------------------------------------------
\* do_preopt, run MaxRuns times on the function by its caller

NoLocals == NoSwap("")

\* ControlFlowGraph::compute
compute_cfg(f) == [b \in 1..Len(f.layout) |-> compute_ebb(f, b)]

Init ==
  /\ func \in InitFuncs
  /\ func0 = func
  /\ after1 = func
  /\ ebb = 0
  /\ inst = 0
  /\ pc = "next_ebb"
  /\ run = 1
  /\ cfg = compute_cfg(func)
  /\ ncfg = 0
  /\ bo = NoLocals
  /\ pre = func
  /\ start = func
  /\ seen = <<>>

\* while let Some(ebb) = pos.next_ebb()
NextEbb ==
  /\ pc = "next_ebb"
  /\ IF next_ebb(func, ebb) # 0
     THEN /\ ebb' = next_ebb(func, ebb)
          /\ pc' = "next_inst"
          /\ after1' = after1
     ELSE /\ ebb' = 0
          /\ pc' = "done"
          /\ after1' = IF run = 1 THEN func ELSE after1
  /\ inst' = 0
  /\ UNCHANGED <<func, func0, run, cfg, ncfg, bo, pre, start, seen>>

\* while let Some(inst) = pos.next_inst()
NextInst ==
  /\ pc = "next_inst"
  /\ LET blk == func.layout[ebb]
         k   == IF inst = 0 THEN 0 ELSE IndexOf(blk, inst, 1)
     IN IF k < Len(blk)
        THEN inst' = blk[k + 1] /\ pc' = "simplify" /\ seen' = Append(seen, blk[k + 1])
        ELSE inst' = 0 /\ pc' = "next_ebb" /\ seen' = seen
  /\ UNCHANGED <<func, func0, ebb, run, cfg, ncfg, bo, pre, after1, start>>

Simplify ==
  /\ pc = "simplify"
  /\ func' = simplify(func, inst)
  /\ pc' = "divrem"
  /\ UNCHANGED <<func0, ebb, inst, run, cfg, ncfg, bo, pre, after1, start, seen>>

\* if let Some(divrem_info) = get_div_info(..) { do_divrem_transformation; continue }
DivRem_ ==
  /\ pc = "divrem"
  /\ LET info == get_div_info(inst, func) IN
     IF info.some
     THEN /\ func' = do_divrem_transformation(info, func, ebb, inst)
          /\ pc' = "next_inst"
     ELSE /\ func' = func
          /\ pc' = "branch_opt"
  /\ UNCHANGED <<func0, ebb, inst, run, cfg, ncfg, bo, pre, after1, start, seen>>

BranchOpt ==
  /\ pc = "branch_opt"
  /\ func' = branch_opt(func, inst)
  /\ pc' = "branch_order"
  /\ UNCHANGED <<func0, ebb, inst, run, cfg, ncfg, bo, pre, after1, start, seen>>

\* branch_order up to the match of the terminator pair
BranchOrder ==
  /\ pc = "branch_order"
  /\ LET m == branch_order_match(func, ebb, inst) IN
     /\ bo' = IF m.res = "swap" THEN m ELSE NoLocals
     /\ pc' = CASE m.res = "swap" -> "replace_term"
                [] m.res = "panic" -> "abort"
                [] OTHER -> "next_inst"
  /\ pre' = IF branch_order_match(func, ebb, inst).res = "swap" THEN func ELSE pre
  /\ UNCHANGED <<func, func0, ebb, inst, run, cfg, ncfg, after1, start, seen>>

ReplaceTerm ==
  /\ pc = "replace_term"
  /\ func' = replace_term(func, bo)
  /\ pc' = "replace_cond"
  /\ UNCHANGED <<func0, ebb, inst, run, cfg, ncfg, bo, pre, after1, start, seen>>

ReplaceCond ==
  /\ pc = "replace_cond"
  /\ func' = replace_cond(func, bo)
  /\ pc' = "recompute_ebb"
  /\ UNCHANGED <<func0, ebb, inst, run, cfg, ncfg, bo, pre, after1, start, seen>>

\* cfg.recompute_ebb(pos.func, ebb)
RecomputeEbb ==
  /\ pc = "recompute_ebb"
  /\ cfg' = [cfg EXCEPT ![ebb] = compute_ebb(func, ebb)]
  /\ ncfg' = ncfg + 1
  /\ bo' = NoLocals
  /\ pc' = "next_inst"
  /\ UNCHANGED <<func, func0, ebb, inst, run, pre, after1, start, seen>>

\* The caller runs the pass again on the function.
Rerun ==
  /\ pc = "done"
  /\ run < MaxRuns
  /\ run' = run + 1
  /\ ebb' = 0
  /\ inst' = 0
  /\ pc' = "next_ebb"
  /\ start' = func
  /\ seen' = <<>>
  /\ UNCHANGED <<func, func0, cfg, ncfg, bo, pre, after1>>

Next ==
  \/ NextEbb
  \/ NextInst
  \/ Simplify
  \/ DivRem_
  \/ BranchOpt
  \/ BranchOrder
  \/ ReplaceTerm
  \/ ReplaceCond
  \/ RecomputeEbb
  \/ Rerun

Spec == Init /\ [][Next]_vars

----------------------------------------------------------------------------
\* The do_add path of the unsigned expansion, for any magic numbers

\* The instruction is a udiv_imm or urem_imm by 3 of v1, on I32 or I64, and
\* the driver is about to expand it.
MagicInit ==
  /\ func \in {DivFunc(ty, op, 3, "imm") : ty \in {"I32", "I64"}, op \in {"udiv", "urem"}}
  /\ func0 = func
  /\ after1 = func
  /\ ebb = 1
  /\ inst = 1
  /\ pc = "magic"
  /\ run = 1
  /\ cfg = compute_cfg(func)
  /\ ncfg = 0
  /\ bo = NoLocals
  /\ pre = func
  /\ start = func
  /\ seen = <<1>>

\* The expansion of the instruction with magic numbers {mul_by, do_add:
\* true, shift_by}, for any mul_by of the width and any shift_by from 2 to
\* the width.
MagicExpand ==
  /\ pc = "magic"
  /\ \E mul_by \in 0..(Pow2(Width(func.insts[inst].ty)) - 1) :
     \E shift_by \in 2..Width(func.insts[inst].ty) :
       LET info == get_div_info(inst, func)
           r == u_magic_sequence(info, Len(func.vtype),
                                 [mul_by |-> mul_by, do_add |-> TRUE, shift_by |-> shift_by])
       IN func' = replace(InsertBefore(func, ebb, inst, r.news), inst, r.repl)
  /\ pc' = "magic_done"
  /\ UNCHANGED <<func0, ebb, inst, run, cfg, ncfg, bo, pre, after1, start, seen>>

MagicNext == MagicExpand

MagicSpec == MagicInit /\ [][MagicNext]_vars

----------------------------------------------------------------------------
\* Properties

DivImmOps == {"udiv_imm", "urem_imm", "sdiv_imm", "srem_imm"}

\* The run-time values of the block parameters v1, v2 : I32 and v3 : B1 of
\* the functions with branches.
BranchEnvs ==
  {<<a, y, b>> : a \in 0..(Pow2(W32) - 1), y \in 0..(Pow2(W32) - 1), b \in 0..1}

\* The current instruction is a div/rem-by-immediate on an I32 or I64 operand
\* whose divisor traps: 0, or -1 for the signed opcodes.
TrapDivisor(f, i) ==
  /\ f.insts[i].opcode \in DivImmOps
  /\ value_type(f, f.insts[i].args[1]) \in {"I32", "I64"}
  /\ \/ f.insts[i].imm = 0
     \/ f.insts[i].opcode \in {"sdiv_imm", "srem_imm"} /\ f.insts[i].imm = 0 - 1

\* C1: trap preservation.  The div/rem step leaves the whole function as it
\* was (same opcode, operand and immediate of the instruction, nothing
\* inserted) when the instruction is a udiv_imm/urem_imm by 0 or an
\* sdiv_imm/srem_imm by 0 or -1, on either width.
C1_TrapPreservation ==
  [][(pc = "divrem" /\ TrapDivisor(func, inst)) => func' = func]_vars

\* A signed 64-bit division by -1 has gone through the div/rem step.
C1_Witness ==
  /\ pc = "next_inst"
  /\ inst # 0
  /\ func.insts[inst] = BinImm("I64", "sdiv_imm", 1, 0 - 1)

\* branch_opt applies to the branch i: a brz/brnz whose condition is defined
\* by icmp_imm cond, a, 0 with cond Equal or NotEqual.
BranchOptApplies(f, i) ==
  /\ f.insts[i].opcode \in {"brz", "brnz"}
  /\ value_def(f, f.insts[i].args[1]) # 0
  /\ LET c == f.insts[value_def(f, f.insts[i].args[1])] IN
     c.opcode = "icmp_imm" /\ c.imm = 0 /\ c.cond \in {"eq", "ne"}

\* The icmp_imm defining the condition of branch i.
CondDef(f, i) == f.insts[value_def(f, f.insts[i].args[1])]

\* C2: semantic equivalence of branch_opt.  Whenever branch_opt rewrites a
\* branch, the rewritten branch is taken, for every run-time value of the
\* block parameters, exactly when the original branch was taken.
C2_BranchOptEquivalent ==
  [][(pc = "branch_opt" /\ func' # func) =>
       \A env \in BranchEnvs :
         Taken(func', func'.insts[inst], env) = Taken(func, func.insts[inst], env)]_vars

\* branch_opt has rewritten a brz on icmp_imm eq a, 0 into a brnz.
C2_Witness ==
  /\ pc = "branch_order"
  /\ func0.insts[inst].opcode = "brz"
  /\ func.insts[inst].opcode = "brnz"
  /\ func0.insts[inst].args[1] # func.insts[inst].args[1]

\* The opcode table of section 4.5 of the specification.
SpecTable(br, cc) ==
  CASE br = "brz"  /\ cc = "eq" -> "brz"
    [] br = "brz"  /\ cc = "ne" -> "brnz"
    [] br = "brnz" /\ cc = "eq" -> "brnz"
    [] br = "brnz" /\ cc = "ne" -> "brz"

\* The opcode table with the two opcodes exchanged.
CodeTable(br, cc) ==
  CASE br = "brz"  /\ cc = "eq" -> "brnz"
    [] br = "brz"  /\ cc = "ne" -> "brz"
    [] br = "brnz" /\ cc = "eq" -> "brz"
    [] br = "brnz" /\ cc = "ne" -> "brnz"

\* C3 as stated: brz with Equal gives brz a, brz with NotEqual gives brnz a,
\* brnz with Equal gives brnz a, brnz with NotEqual gives brz a.
C3_SpecTable ==
  [][(pc = "branch_opt" /\ BranchOptApplies(func, inst)) =>
       /\ func'.insts[inst].opcode =
            SpecTable(func.insts[inst].opcode, CondDef(func, inst).cond)
       /\ func'.insts[inst].args[1] = CondDef(func, inst).args[1]]_vars

\* C3, amended: brz with Equal gives brnz a, brz with NotEqual gives brz a,
\* brnz with Equal gives brz a, brnz with NotEqual gives brnz a; the branch
\* operates on a.
C3_CodeTable ==
  [][(pc = "branch_opt" /\ BranchOptApplies(func, inst)) =>
       /\ func'.insts[inst].opcode =
            CodeTable(func.insts[inst].opcode, CondDef(func, inst).cond)
       /\ func'.insts[inst].args[1] = CondDef(func, inst).args[1]]_vars

\* `c = icmp_imm ne, v1, 0; brz c, B2, []` has become `brz v1, B2, []`.
C3_Witness ==
  /\ pc = "branch_order"
  /\ func0.insts[inst] = Data("brz", <<4>>, 0, "", 2, "B1")
  /\ func0.insts[value_def(func0, 4)] = Data("icmp_imm", <<1>>, 0, "ne", 0, "I32")
  /\ func.insts[inst] = Data("brz", <<1>>, 0, "", 2, "I32")

\* C4: control-flow equivalence of branch_order.  Once both instructions of
\* the pair (P, J) are replaced, the block control leaves to and the block
\* arguments passed are, for every run-time value of the block parameters,
\* those of the pair before the swap; P's old destination is reached by the
\* jump with P's old block arguments and J's old destination by the
\* conditional branch with J's old arguments.
C4_ControlFlowEquivalent ==
  pc = "recompute_ebb" =>
    LET p == bo.cond_inst
        j == bo.term_inst
    IN /\ pre.insts[p].opcode \in {"brz", "brnz", "br_icmp"}
       /\ \A env \in BranchEnvs : Exit(func, p, j, env) = Exit(pre, p, j, env)
       /\ func.insts[j].opcode = "jump"
       /\ func.insts[j].dest = pre.insts[p].dest
       /\ BlockArgs(func.insts[j]) = BlockArgs(pre.insts[p])
       /\ func.insts[p].dest = pre.insts[j].dest
       /\ BlockArgs(func.insts[p]) = BlockArgs(pre.insts[j])

\* A br_icmp carrying a block argument has been swapped with a jump carrying
\* two.
C4_Witness ==
  /\ pc = "recompute_ebb"
  /\ pre.insts[bo.cond_inst].opcode = "br_icmp"
  /\ BlockArgs(pre.insts[bo.cond_inst]) = <<2>>
  /\ BlockArgs(pre.insts[bo.term_inst]) = <<1, 2>>
  /\ func.insts[bo.term_inst].args = <<2>>

\* The jump i of block b was swapped with the branch before it by the first
\* run of the pass.
SwappedInRun1(b, i) ==
  /\ i \in 1..Len(func0.insts)
  /\ func0.insts[i].opcode = "jump"
  /\ after1.insts[i] # func0.insts[i]

\* C5: the fallthrough state machine of branch_order.  After a swap the
\* jump of the block targets the next block in layout order and the branch
\* before it has the inverted opcode and the jump's old destination (`brz c,
\* B3; jump B2` becomes `brnz c, B2; jump B3`); branch_order applied again to
\* that jump returns without a change: right after the swap, and in a second
\* run of the pass, where it modifies no instruction and does not recompute
\* the CFG.
C5_Fallthrough ==
  /\ [](pc = "recompute_ebb" =>
          /\ func.insts[inst].opcode = "jump"
          /\ func.insts[inst].dest = next_ebb(func, ebb)
          /\ func.layout[ebb][Len(func.layout[ebb])] = inst
          /\ (pre.insts[bo.cond_inst].opcode = "brz" =>
                /\ func.insts[bo.cond_inst].opcode = "brnz"
                /\ func.insts[bo.cond_inst].dest = pre.insts[inst].dest)
          /\ branch_order_match(func, ebb, inst).res = "return")
  /\ [][(run > 1 /\ pc = "branch_order" /\ SwappedInRun1(ebb, inst)) =>
          (pc' = "next_inst" /\ func' = func /\ cfg' = cfg /\ ncfg' = ncfg)]_vars

\* branch_order has been applied, in the second run, to a jump that the first
\* run swapped with a brz.
C5_Witness ==
  /\ run = 2
  /\ pc = "next_inst"
  /\ inst # 0
  /\ SwappedInRun1(ebb, inst)
  /\ func0.insts[prev_inst(func0, ebb, inst)] = Data("brz", <<1>>, 0, "", 2, "I32")
  /\ func.insts[prev_inst(func, ebb, inst)].opcode = "brnz"
  /\ func.insts[inst].dest = next_ebb(func, ebb)

\* C6 as stated: a second run of the pass leaves the function as the first
\* run left it.
C6_Idempotent == (pc = "done" /\ run = 2) => func = after1

\* C6, amended: on the output of a first run the div/rem rewriter and
\* branch_order change nothing any more (simplify and branch_opt still can).
C6_SecondRunQuiet ==
  /\ [][(run > 1 /\ pc = "divrem") => func' = func]_vars
  /\ [][(run > 1 /\ pc = "branch_order") => pc' = "next_inst"]_vars
  /\ [][(run > 1) => (cfg' = cfg /\ ncfg' = ncfg)]_vars

\* The second run is over, on a function in which the first run expanded a
\* division or swapped a terminator pair.
C6_Witness ==
  /\ run = 2
  /\ pc = "done"
  /\ \/ Len(after1.insts) > Len(func0.insts)
     \/ \E i \in 1..Len(func0.insts) :
          func0.insts[i].opcode = "jump" /\ after1.insts[i] # func0.insts[i]

\* The run-time values of the block parameters of a function that divides
\* values of type ty: every value of v1, which alone is used.
DivEnvs(ty) == {<<a, 0>> : a \in 0..(Pow2(Width(ty)) - 1)}

\* d = +2^k or -2^k with 1 <= k <= w - 1, representable in w signed bits.
SignedPow2(w, d) ==
  /\ d \in MinS(w)..MaxS(w)
  /\ \E k \in 1..(w - 1) : d = Pow2(k) \/ d = 0 - Pow2(k)

\* C7: the signed power-of-two expansion is exact.  For sdiv_imm n, d and
\* srem_imm n, d with d = +2^k or -2^k, the rewritten instruction evaluates,
\* for every n of the width, to the quotient of n by d truncated toward zero,
\* respectively to n - d * trunc(n / d).
C7_SignedPow2Exact ==
  [][(/\ pc = "divrem"
      /\ func.insts[inst].opcode \in {"sdiv_imm", "srem_imm"}
      /\ value_type(func, func.insts[inst].args[1]) \in {"I32", "I64"}
      /\ SignedPow2(Width(func.insts[inst].ty), func.insts[inst].imm)) =>
       LET w == Width(func.insts[inst].ty)
           d == func.insts[inst].imm
       IN \A env \in DivEnvs(func.insts[inst].ty) :
            LET n == AsS(w, Eval(func, func.insts[inst].args[1], env)) IN
            Eval(func', func.results[inst], env) =
              AsU(w, IF func.insts[inst].opcode = "sdiv_imm"
                     THEN TruncDiv(n, d) ELSE n - d * TruncDiv(n, d))]_vars

\* sdiv_imm v1, -4 has been expanded and gives -2 for v1 = 9 and 2 for
\* v1 = -9.
C7_Witness ==
  /\ pc = "next_inst"
  /\ inst # 0
  /\ func0.insts[inst] = BinImm("I64", "sdiv_imm", 1, 0 - 4)
  /\ func.insts[inst].opcode = "irsub_imm"
  /\ Eval(func, func.results[inst], <<9, 0>>) = AsU(W64, 0 - 2)
  /\ Eval(func, func.results[inst], <<AsU(W64, 0 - 9), 0>>) = 2

\* C8: the single-instruction fast paths.  Div by 1 becomes copy n and rem
\* by 1 becomes iconst 0; udiv_imm n, 2^k becomes ushr_imm n, k and
\* urem_imm n, 2^k becomes band_imm n, 2^k - 1 (1 <= k <= W - 1).  Nothing
\* else of the function changes (no instruction is inserted) and the result
\* is floor(n / d), respectively n mod d, for every unsigned n.
C8_FastPaths ==
  [][(/\ pc = "divrem"
      /\ func.insts[inst].opcode \in DivImmOps
      /\ value_type(func, func.insts[inst].args[1]) \in {"I32", "I64"}
      /\ \/ func.insts[inst].imm = 1
         \/ /\ func.insts[inst].opcode \in {"udiv_imm", "urem_imm"}
            /\ \E k \in 1..(Width(func.insts[inst].ty) - 1) :
                 func.insts[inst].imm = Pow2(k)) =>
       LET ty  == func.insts[inst].ty
           op  == func.insts[inst].opcode
           n   == func.insts[inst].args[1]
           d   == func.insts[inst].imm
           rem == op \in {"urem_imm", "srem_imm"}
           new == IF d = 1
                  THEN IF rem THEN Data("iconst", <<>>, 0, "", 0, ty)
                              ELSE Data("copy", <<n>>, 0, "", 0, ty)
                  ELSE IF rem THEN Data("band_imm", <<n>>, d - 1, "", 0, ty)
                              ELSE Data("ushr_imm", <<n>>,
                                        CHOOSE k \in 1..(Width(ty) - 1) : d = Pow2(k),
                                        "", 0, ty)
       IN /\ func' = [func EXCEPT !.insts[inst] = new]
          /\ \A env \in DivEnvs(ty) :
               Eval(func', func.results[inst], env) =
                 IF rem THEN Eval(func, n, env) % d ELSE Eval(func, n, env) \div d]_vars

\* `v2 = udiv_imm v1, 8` on I32 has become `v2 = ushr_imm v1, 3`.
C8_Witness ==
  /\ pc = "next_inst"
  /\ inst # 0
  /\ func0.insts[inst] = BinImm("I32", "udiv_imm", 1, 8)
  /\ func.insts[inst] = BinImm("I32", "ushr_imm", 1, 3)
  /\ Len(func.insts) = Len(func0.insts)

\* C9: the range check of the divisor classifier.  A div/rem-by-immediate on
\* an I32 operand is classified (the driver goes on to the next instruction)
\* exactly when its immediate lies in [0, 2^32 - 1] for the unsigned opcodes
\* and in [-2^31, 2^31 - 1] for the signed ones; on I64 every immediate is
\* classified; on any other type none is.  An instruction that is not
\* classified is left unchanged by the rest of its visit.
C9_ClassifierRange ==
  /\ [][(pc = "divrem" /\ func.insts[inst].opcode \in DivImmOps) =>
          LET ty  == value_type(func, func.insts[inst].args[1])
              imm == func.insts[inst].imm
              classified == pc' = "next_inst"
          IN /\ classified = get_div_info(inst, func).some
             /\ classified \/ (pc' = "branch_opt" /\ func' = func)
             /\ (ty = "I32" /\ func.insts[inst].opcode \in {"udiv_imm", "urem_imm"}) =>
                  (classified <=> imm \in 0..(Pow2(W32) - 1))
             /\ (ty = "I32" /\ func.insts[inst].opcode \in {"sdiv_imm", "srem_imm"}) =>
                  (classified <=> imm \in MinS(W32)..MaxS(W32))
             /\ ty = "I64" => classified
             /\ ty \notin {"I32", "I64"} => ~classified]_vars
  /\ [][(pc \in {"branch_opt", "branch_order"} /\ func.insts[inst].opcode \in DivImmOps) =>
          func' = func]_vars

\* A udiv_imm by 2^32 on an I32 operand has gone through the classifier and
\* was not classified.
C9_Witness ==
  /\ pc = "branch_opt"
  /\ func.insts[inst] = BinImm("I32", "udiv_imm", 1, Pow2(W32))

\* C10 as stated: simplify rewrites every isub whose left operand is an
\* iconst C and whose right operand is not an iconst to irsub_imm with
\* immediate C and the right operand as its operand, and rewrites no other
\* binary opcode on account of a constant left operand.
C10_ConstantLeftOperand ==
  [][(/\ pc = "simplify"
      /\ Format(func.insts[inst].opcode) = "Binary"
      /\ is_iconst(func, func.insts[inst].args[1])
      /\ ~is_iconst(func, func.insts[inst].args[2])) =>
       IF func.insts[inst].opcode = "isub"
       THEN func' = [func EXCEPT !.insts[inst] =
                       Data("irsub_imm", <<func.insts[inst].args[2]>>,
                            func.insts[value_def(func, func.insts[inst].args[1])].imm,
                            "", 0, func.insts[inst].ty)]
       ELSE func' = func]_vars

\* C11: simplify of isub with a constant right operand.  `isub x, (iconst C)`
\* becomes `iadd_imm x, C'` where C' is the 64-bit negation of C, wrapped
\* into the signed range; nothing else of the function changes, the
\* instruction keeps its controlling type, and for every x and every C of
\* the immediate range (the minimum signed value included) x + C' equals
\* x - C modulo 2^W on both widths, so the result is the same at run time.
C11_IsubToIaddImm ==
  [][(/\ pc = "simplify"
      /\ func.insts[inst].opcode = "isub"
      /\ is_iconst(func, func.insts[inst].args[2])) =>
       LET d   == func.insts[inst]
           C   == func.insts[value_def(func, d.args[2])].imm
           new == func'.insts[inst]
       IN /\ new.opcode = "iadd_imm"
          /\ new.args = <<d.args[1]>>
          /\ new.imm \in MinS(W64)..MaxS(W64)
          /\ (new.imm + C) % Pow2(W64) = 0
          /\ new.ty = d.ty
          /\ value_type(func', func.results[inst]) = value_type(func, func.results[inst])
          /\ func' = [func EXCEPT !.insts[inst] = new]
          /\ \A w \in {W32, W64} : \A c \in ImmRange : \A x \in 0..(Pow2(w) - 1) :
               AsU(w, x + wrapping_neg(W64, c)) = AsU(w, x - c)
          /\ \A env \in DivEnvs(d.ty) :
               Eval(func', func.results[inst], env) = Eval(func, func.results[inst], env)]_vars

\* `v5 = isub v1, v3` with v3 = iconst -2^63 on I64 has become
\* `v5 = iadd_imm v1, -2^63`: the negation wrapped to the constant itself.
C11_Witness ==
  /\ pc = "divrem"
  /\ inst = 3
  /\ func0.insts[1] = Iconst("I64", MinS(W64))
  /\ func0.insts[3] = Bin("I64", "isub", 1, 3)
  /\ func.insts[3] = BinImm("I64", "iadd_imm", 1, MinS(W64))

\* C12: the frame of branch_opt.  A brz/brnz is left completely unchanged
\* (and so is the rest of the function) when its condition is a block
\* parameter, is not defined by an icmp_imm, or is defined by an icmp_imm
\* whose immediate is not 0 or whose condition code is neither Equal nor
\* NotEqual.  Otherwise only the opcode and the first operand of the branch
\* change (and with the operand the type the branch is controlled by): its
\* destination and block arguments, the defining icmp_imm, every other
\* instruction, the layout and the values stay as they were.
C12_BranchOptFrame ==
  [][(pc = "branch_opt" /\ Format(func.insts[inst].opcode) = "Branch") =>
       LET d   == func.insts[inst]
           def == value_def(func, d.args[1])
           new == func'.insts[inst]
       IN IF \/ def = 0
             \/ func.insts[def].opcode # "icmp_imm"
             \/ func.insts[def].imm # 0
             \/ func.insts[def].cond \notin {"eq", "ne"}
          THEN func' = func
          ELSE /\ new.dest = d.dest
               /\ Len(new.args) = Len(d.args)
               /\ Tail(new.args) = Tail(d.args)
               /\ new.imm = d.imm /\ new.cond = d.cond
               /\ new.opcode \in {"brz", "brnz"}
               /\ new.args[1] = func.insts[def].args[1]
               /\ func'.insts[def] = func.insts[def]
               /\ IndexOf(func'.layout[ebb], def, 1) = IndexOf(func.layout[ebb], def, 1)
               /\ func' = [func EXCEPT !.insts[inst] = new]]_vars

\* `v4 = icmp_imm eq v1, 0; brz v4, ebb2(v2)` has become `brnz v1, ebb2(v2)`
\* and the icmp_imm is still there.
C12_Witness ==
  /\ pc = "branch_order"
  /\ inst = 2
  /\ func0.insts[1] = Data("icmp_imm", <<1>>, 0, "eq", 0, "I32")
  /\ func0.insts[2] = Data("brz", <<4, 2>>, 0, "", 2, "B1")
  /\ func.insts[2] = Data("brnz", <<1, 2>>, 0, "", 2, "I32")
  /\ func.insts[1] = func0.insts[1]
  /\ func.layout = func0.layout

\* The block of the layout of f that holds instruction i, 0 when none does.
BlockOf(f, i) ==
  IF \E b \in 1..Len(f.layout) : IndexOf(f.layout[b], i, 1) # 0
  THEN CHOOSE b \in 1..Len(f.layout) : IndexOf(f.layout[b], i, 1) # 0
  ELSE 0

\* Every instruction of f0 is in f, once, in the block it had in f0 and in
\* the same order relative to the other instructions of f0, and defines the
\* value it defined in f0, of the same type.
Preserved(f0, f) ==
  /\ Len(f.layout) = Len(f0.layout)
  /\ \A i \in 1..Len(f0.insts) :
       /\ BlockOf(f0, i) # 0
       /\ BlockOf(f, i) = BlockOf(f0, i)
       /\ Cardinality({<<b, k>> \in (1..Len(f.layout)) \X (1..Len(f.insts)) :
                         k <= Len(f.layout[b]) /\ f.layout[b][k] = i}) = 1
       /\ f.results[i] = f0.results[i]
       /\ f0.results[i] # 0 =>
            value_type(f, f.results[i]) = value_type(f0, f0.results[i])
  /\ \A b \in 1..Len(f0.layout) :
       \A k1, k2 \in 1..Len(f0.layout[b]) :
         k1 < k2 => IndexOf(f.layout[b], f0.layout[b][k1], 1)
                      < IndexOf(f.layout[b], f0.layout[b][k2], 1)

\* The instructions of f whose result is value v.
Definers(f, v) == {i \in 1..Len(f.insts) : f.results[i] = v}

\* C13: no deletion, stable value identity.  In every state of do_preopt,
\* the instructions the function had before the pass (before the first run,
\* and before the current one) are still in their blocks, in their relative
\* order, each defining the value it defined, of the same type; an old
\* value that was the result of one instruction (a block parameter is the
\* result of none) still is the result of that one only, and an inserted
\* value is the result of exactly one instruction.
C13_NoDeletionStableValues ==
  /\ Preserved(func0, func)
  /\ Preserved(after1, func)
  /\ Len(func.results) = Len(func.insts)
  /\ \A v \in 1..Len(func.vtype) :
       Cardinality(Definers(func, v))
         = IF v <= Len(func0.vtype) THEN Cardinality(Definers(func0, v)) ELSE 1
  /\ \A v \in 1..Len(func0.vtype) : Cardinality(Definers(func0, v)) <= 1

\* `v2 = iconst 3; v3 = udiv v1, v2` on I32: the udiv has been expanded, the
\* new instructions are in the block and the iconst is still before the
\* rewritten instruction, which still defines v3.
C13_Witness ==
  /\ pc = "next_inst"
  /\ inst = 2
  /\ func0.insts[1] = Iconst("I32", 3)
  /\ func0.insts[2] = Bin("I32", "udiv", 1, 2)
  /\ func.insts[2].opcode # "udiv"
  /\ Len(func.insts) > Len(func0.insts)
  /\ Len(func.layout[1]) > Len(func0.layout[1])
  /\ func.results[2] = 3

\* The instructions of the blocks b, b + 1, ... of a layout, in order.
RECURSIVE Flatten(_, _)
Flatten(l, b) == IF b > Len(l) THEN <<>> ELSE l[b] \o Flatten(l, b + 1)

\* The instructions that the layout had when the current run started, blocks
\* in layout order and instructions in program order.
StartOrder == Flatten(start.layout, 1)

\* The visit of one instruction: simplify, then the div/rem classification,
\* then branch_opt and branch_order unless the instruction was classified;
\* only the div/rem step inserts instructions, in the current block and
\* before the instruction it rewrites.
VisitStep ==
  /\ pc' = "simplify" =>
       pc = "next_inst" /\ seen' = Append(seen, inst') /\ func' = func
  /\ pc = "simplify" => pc' = "divrem" /\ inst' = inst
  /\ pc = "divrem" =>
       /\ inst' = inst
       /\ pc' = IF get_div_info(inst, func).some THEN "next_inst" ELSE "branch_opt"
       /\ \A j \in (Len(func.insts) + 1)..Len(func'.insts) :
            /\ IndexOf(func'.layout[ebb], j, 1) # 0
            /\ IndexOf(func'.layout[ebb], j, 1) < IndexOf(func'.layout[ebb], inst, 1)
  /\ pc' = "branch_opt" => pc = "divrem"
  /\ pc = "branch_opt" => pc' = "branch_order" /\ inst' = inst
  /\ pc' = "branch_order" => pc = "branch_opt"
  /\ pc # "divrem" => Len(func'.insts) = Len(func.insts) /\ func'.layout = func.layout
  /\ pc' # "simplify" => seen' = seen \/ (pc = "done" /\ seen' = <<>>)

\* The steps of a visit still to take, by place in the driver.
Rank(p) ==
  CASE p = "simplify" -> 8
    [] p = "divrem" -> 7
    [] p = "branch_opt" -> 6
    [] p = "branch_order" -> 5
    [] p = "replace_term" -> 4
    [] p = "replace_cond" -> 3
    [] p = "recompute_ebb" -> 2
    [] p = "next_inst" -> 1
    [] OTHER -> 0

\* A bound on the number of steps that the current run still takes: 0 at
\* its end, and otherwise counted from the instructions not yet examined,
\* the blocks not yet entered and the steps left in the current visit.
WorkLeft ==
  IF pc = "done" THEN 0
  ELSE 1 + 10 * (Len(StartOrder) - Len(seen)) + 2 * (Len(func.layout) - ebb) + Rank(pc)

\* C14: the visiting order of the driver.  Every run of do_preopt comes to
\* its end: it never aborts and each of its steps lowers WorkLeft, which is
\* never negative.  The instructions it has examined so far are always the
\* first ones of those the function had when the run started, blocks in
\* layout order and instructions in program order, and at the end they are
\* all of them, each one once: an inserted instruction is never examined in
\* the run that inserted it.  Each instruction is visited as VisitStep says.
C14_VisitingOrder ==
  /\ [](/\ Len(seen) <= Len(StartOrder)
        /\ seen = SubSeq(StartOrder, 1, Len(seen))
        /\ pc = "done" => seen = StartOrder
        /\ pc # "abort"
        /\ WorkLeft >= 0)
  /\ [][VisitStep]_vars
  /\ [][pc # "done" => WorkLeft' < WorkLeft]_vars

\* The first run has come to its end on `v2 = iconst 3; v3 = udiv v1, v2;
\* return v3` (I32): it has examined the three instructions that the
\* function started with and none of those that the expansion of the udiv
\* inserted before it.
C14_Witness ==
  /\ pc = "done"
  /\ run = 1
  /\ func0.insts[1] = Iconst("I32", 3)
  /\ func0.insts[2] = Bin("I32", "udiv", 1, 2)
  /\ seen = <<1, 2, 3>>
  /\ Len(func.layout[1]) > 3
  /\ func.layout[1][1] = 1
  /\ func.layout[1][2] > 3

\* One of the conditions under which branch_order has nothing to do holds of
\* the current instruction: it is not a jump, its block is the last of the
\* layout, it jumps to the next block, it is the first instruction of its
\* block, the instruction before it has no branch destination, or that
\* destination is not the next block.
BranchOrderGuard ==
  LET d == func.insts[inst]
      k == IndexOf(func.layout[ebb], inst, 1)
  IN \/ d.opcode # "jump"
     \/ ebb = Len(func.layout)
     \/ d.dest = ebb + 1
     \/ k = 1
     \/ branch_destination(func.insts[func.layout[ebb][k - 1]]) = 0
     \/ func.insts[func.layout[ebb][k - 1]].dest # ebb + 1

\* C15: the guards of branch_order.  Under BranchOrderGuard branch_order
\* changes no instruction and does not recompute the CFG.  A swap starts
\* only when the guard does not hold; it replaces the jump, then the branch,
\* and only then recomputes the CFG of the block, once: the CFG is
\* recomputed (or changed) by no other step, and at the recomputation both
\* instructions differ from what they were before the swap.
C15_BranchOrderGuards ==
  /\ [][(pc = "branch_order" /\ BranchOrderGuard) =>
          (pc' = "next_inst" /\ func' = func /\ cfg' = cfg /\ ncfg' = ncfg)]_vars
  /\ [][pc' = "replace_term" => (pc = "branch_order" /\ ~BranchOrderGuard /\ func' = func)]_vars
  /\ [][pc' = "replace_cond" =>
          /\ pc = "replace_term"
          /\ func' = [func EXCEPT !.insts[bo.term_inst] = func'.insts[bo.term_inst]]
          /\ func'.insts[bo.term_inst] # func.insts[bo.term_inst]]_vars
  /\ [][pc' = "recompute_ebb" =>
          /\ pc = "replace_cond"
          /\ func' = [func EXCEPT !.insts[bo.cond_inst] = func'.insts[bo.cond_inst]]
          /\ func'.insts[bo.cond_inst] # func.insts[bo.cond_inst]]_vars
  /\ [][pc = "recompute_ebb" =>
          /\ pc' = "next_inst"
          /\ ncfg' = ncfg + 1
          /\ cfg' = [cfg EXCEPT ![ebb] = compute_ebb(func, ebb)]
          /\ func' = func
          /\ func.insts[bo.term_inst] # pre.insts[bo.term_inst]
          /\ func.insts[bo.cond_inst] # pre.insts[bo.cond_inst]]_vars
  /\ [][(ncfg' # ncfg \/ cfg' # cfg) => pc = "recompute_ebb"]_vars

\* branch_order has returned on `brz v1, ebb3; jump ebb1` in the first of
\* three blocks: the branch does not go to the next block, nothing has
\* changed and the CFG has not been recomputed.
C15_Witness ==
  /\ pc = "next_inst"
  /\ ebb = 1
  /\ inst = 2
  /\ func.insts[1] = Data("brz", <<1>>, 0, "", 3, "I32")
  /\ func.insts[2] = Data("jump", <<>>, 0, "", 1, "")
  /\ func = func0
  /\ ncfg = 0

\* The current instruction is a jump that does not go to the next block and
\* the instruction before it branches to the next block with an opcode that
\* is none of brz, brnz, br_icmp.
UnexpectedBranch ==
  LET d == func.insts[inst]
      k == IndexOf(func.layout[ebb], inst, 1)
  IN /\ d.opcode = "jump"
     /\ ebb < Len(func.layout)
     /\ d.dest # ebb + 1
     /\ k > 1
     /\ branch_destination(func.insts[func.layout[ebb][k - 1]]) = ebb + 1
     /\ func.insts[func.layout[ebb][k - 1]].opcode \notin {"brz", "brnz", "br_icmp"}

\* C16 as stated: on an unexpected branch before the jump (for instance a
\* branch on integer or float flags) branch_order aborts.
C16_AbortOnUnexpectedBranch ==
  [][(pc = "branch_order" /\ UnexpectedBranch) => pc' = "abort"]_vars

\* C16, amended: on a branch on integer or float flags before the jump
\* branch_order returns normally: the driver goes on with the next
\* instruction, no instruction has changed and the CFG is not recomputed.
C16_FlagsBranchReturns ==
  [][(pc = "branch_order" /\ UnexpectedBranch) =>
       /\ pc' = "next_inst"
       /\ func' = func
       /\ cfg' = cfg
       /\ ncfg' = ncfg]_vars

\* branch_order has returned on `v4 = ifcmp v1, v2; brif eq v4, ebb2;
\* jump ebb3` in the first block, and the function is as it was.
C16_Witness ==
  /\ pc = "next_inst"
  /\ ebb = 1
  /\ inst = 3
  /\ func.insts[2] = Data("brif", <<4>>, 0, "eq", 2, "IFLAGS")
  /\ func.insts[3] = Data("jump", <<>>, 0, "", 3, "")
  /\ func = func0
  /\ ncfg = 0

\* C17: the do_add path of the unsigned expansion never wraps.  For the
\* sequence emitted for any mul_by of the width and any shift_by from 2 to
\* the width, and for every n of the width: q1 is the high half of
\* n * mul_by, t1 = n - q1 does not underflow, t3 = t2 + q1 does not
\* overflow and is floor((n + q1) / 2) in unbounded arithmetic, the last
\* shift is by shift_by - 1, which lies in [1, W - 1], and the final quotient
\* is floor((n + q1) / 2^shift_by).
C17_DoAddNeverWraps ==
  [][pc = "magic" =>
       LET ty   == func.insts[inst].ty
           w    == Width(ty)
           base == Len(func.vtype)
           mul_by   == AsU(w, func'.insts[value_def(func', base + 1)].imm)
           shift_by == func'.insts[value_def(func', base + 6)].imm + 1
       IN /\ shift_by \in 2..w
          /\ shift_by - 1 \in 1..(w - 1)
          /\ func'.insts[value_def(func', base + 6)] = BinImm(ty, "ushr_imm", base + 5, shift_by - 1)
          /\ \A env \in DivEnvs(ty) :
               LET n  == Eval(func', 1, env)
                   q1 == Eval(func', base + 2, env)
                   t1 == Eval(func', base + 3, env)
                   t2 == Eval(func', base + 4, env)
                   t3 == Eval(func', base + 5, env)
                   qf == Eval(func', base + 6, env)
               IN /\ q1 = (n * mul_by) \div Pow2(w)
                  /\ n - q1 >= 0
                  /\ t1 = n - q1
                  /\ t2 = (n - q1) \div 2
                  /\ t2 + q1 < Pow2(w)
                  /\ t3 = (n + q1) \div 2
                  /\ qf = (n + q1) \div Pow2(shift_by)]_vars

\* The udiv_imm on I32 has been expanded with the largest multiplier,
\* 2^32 - 1, and the largest shift, 32: for the largest n, q1 is n - 1 and
\* t3 is n - 1 as well, with no wrap.
C17_Witness ==
  /\ pc = "magic_done"
  /\ func0.insts[1].opcode = "udiv_imm"
  /\ func0.insts[1].ty = "I32"
  /\ Len(func.insts) = Len(func0.insts) + 6
  /\ func.insts[3] = Iconst("I32", Pow2(W32) - 1)
  /\ func.insts[8] = BinImm("I32", "ushr_imm", 8, W32 - 1)
  /\ Eval(func, 5, <<Pow2(W32) - 1, 0>>) = Pow2(W32) - 2
  /\ Eval(func, 8, <<Pow2(W32) - 1, 0>>) = Pow2(W32) - 2

====
